---------------------------- MODULE Spec2Model ----------------------------
(***************************************************************************)
(* State-machine model of the OPT4001 ambient light sensor driver          *)
(* (src/OPT4001.py): the measurement accessors lux, result, read_lux_FIFO  *)
(* and read_result_FIFO, the register read read_u16 with its scoped bus    *)
(* acquisition, the two bit-field decoders and the lux computation.        *)
(*                                                                         *)
(* Every caller ("thread") runs one measurement request; pc[t] is the      *)
(* statement it is about to execute.  self.buf is the one scratch buffer   *)
(* of the driver object, shared by every caller.  The I2C bus lock, the    *)
(* device and the monotonic clock are the environment.                     *)
(*                                                                         *)
(* Python integers are unbounded: adc_codes and lux are kept as            *)
(* little-endian base-256 digit sequences (Big) so that the largest        *)
(* mantissa shifted by the largest exponent is computed exactly.  lux is   *)
(* the exact product adc_codes * 4375, in units of 1e-7 lux.               *)
(***************************************************************************)
EXTENDS Integers, Sequences, FiniteSets, TLC

(***************************** register map ********************************)
RESULT_H == 0
RESULT_L == 1
FIFO_0_H == 2
FIFO_0_L == 3
FIFO_1_H == 4
FIFO_1_L == 5
FIFO_2_H == 6
FIFO_2_L == 7
FLAGS == 12

\* len(self.buf): self.buf = bytearray(3)
BufLen == 3

\* lux = adc_codes * .0004375, in units of 1e-7 lux
LuxScaleE7 == 4375

(******************************** bounds ***********************************)
\* The wait window (1.1 s in the code) in clock ticks; one tick is the
\* shortest time one time.sleep(0.001) takes.
TimeoutTicks == 4
\* A sleep takes 1..MaxSleepTicks ticks (time.sleep may oversleep).
MaxSleepTicks == 2
\* One flag poll on the bus takes 0..MaxBusTicks ticks.
MaxBusTicks == 1
\* FIFO slot arguments tried: -1..MaxSlotArg.
MaxSlotArg == 3

\* The callers: Main alone under Spec, both under SpecConc.
Main == "t1"
Threads == {"t1", "t2"}

\* Bytes the device returns in the modelled runs: both nibbles zero, low
\* nibble only, high nibble only, mixed nibbles (exponent 12), all ones.
SampleBytes == {0, 1, 16, 197, 255}
\* The byte that follows the addressed register on the wire (the third byte
\* of a three-byte read).
TrailBytes == {255}
\* With two callers every register holds one content, which names it.
ConcPair(addr) == <<16 * addr + addr, 255 - addr>>
AllBytes == 0..255

SlotArgs == (0 - 1)..MaxSlotArg
SleepTicks == 1..MaxSleepTicks
BusTicks == 0..MaxBusTicks
\* The clock saturates here, later than any wait of the model can last
\* (only Main ever waits).
ClockCap == TimeoutTicks + MaxSleepTicks + MaxBusTicks + 1
Min(a, b) == IF a < b THEN a ELSE b

(************************** integer bit operations *************************)
Pow2(n) == 2 ^ n
\* x << n and x >> n on non-negative Python ints
Shl(x, n) == x * Pow2(n)
Shr(x, n) == x \div Pow2(n)

RECURSIVE BitAnd(_, _)
BitAnd(a, b) ==
  IF a = 0 \/ b = 0 THEN 0
  ELSE (IF a % 2 = 1 /\ b % 2 = 1 THEN 1 ELSE 0) + 2 * BitAnd(a \div 2, b \div 2)

RECURSIVE BitOr(_, _)
BitOr(a, b) ==
  IF a = 0 THEN b
  ELSE IF b = 0 THEN a
  ELSE (IF a % 2 = 1 \/ b % 2 = 1 THEN 1 ELSE 0) + 2 * BitOr(a \div 2, b \div 2)

(***************** unbounded naturals: base-256 digit lists ****************)
RECURSIVE Nat2Big(_)
Nat2Big(n) == IF n = 0 THEN <<>> ELSE <<n % 256>> \o Nat2Big(n \div 256)

RECURSIVE BigMulCarry(_, _, _)
BigMulCarry(b, k, carry) ==
  IF b = <<>> THEN Nat2Big(carry)
  ELSE LET v == Head(b) * k + carry
       IN  <<v % 256>> \o BigMulCarry(Tail(b), k, v \div 256)

RECURSIVE BigTrim(_)
BigTrim(b) ==
  IF b = <<>> THEN b
  ELSE IF b[Len(b)] = 0 THEN BigTrim(SubSeq(b, 1, Len(b) - 1))
  ELSE b

\* b * k for a small k (k < 2^16)
BigMul(b, k) == BigTrim(BigMulCarry(b, k, 0))
\* b << n for n in 0..15
BigShl(b, n) == BigMul(b, Pow2(n))


(******************************* Python values *****************************)
PyNone == [type |-> "none", items |-> <<>>]
PyFloat(x) == [type |-> "float", items |-> <<x>>]
PyTuple(s) == [type |-> "tuple", items |-> s]

(********************************* state ***********************************)
VARIABLES
  pc,        \* pc[t]: the statement caller t executes next
  loc,       \* loc[t]: t's arguments and local variables
  buf,       \* self.buf, the driver object's scratch buffer (index 0..2)
  i2c_lock,  \* holder of the I2C bus lock, or "free"
  now,       \* time.monotonic(), in ticks
  trace,     \* trace[t]: the bus and sleep events of t's request, in order
  got        \* got[t]: the byte pairs t's own two register reads returned

vars == <<pc, loc, buf, i2c_lock, now, trace, got>>

\* the callers of this run
Callers == DOMAIN pc
\* what a register read may return in this run
DevicePairs(addr) ==
  IF Callers = {Main} THEN SampleBytes \X SampleBytes ELSE {ConcPair(addr % 16)}

NoLocals ==
  [op |-> "none", id |-> 0 - 1, just_lux |-> FALSE,
   register_h |-> 0 - 1, register_l |-> 0 - 1,
   stage |-> "none", register |-> 0 - 1, exc |-> FALSE,
   start_time |-> 0 - 1, flag |-> FALSE,
   exponent |-> 0 - 1, result_msb |-> 0 - 1,
   result_lsb |-> 0 - 1, counter |-> 0 - 1, crc |-> 0 - 1,
   mantissa |-> 0 - 1, adc_codes |-> <<>>, lux |-> <<>>,
   ret |-> PyNone, err |-> "none"]

NoPair == <<0 - 1, 0 - 1>>
NoReads == [high |-> NoPair, low |-> NoPair, asked |-> <<>>]

(******************************** events ***********************************)
Ev(kind, a, w, r, o) == [ev |-> kind, addr |-> a, wr |-> w, rd |-> r, ok |-> o]
EvAcquire == Ev("acquire", 0 - 1, 0, 0, TRUE)
EvRelease == Ev("release", 0 - 1, 0, 0, TRUE)
EvSleep == Ev("sleep", 0 - 1, 0, 0, TRUE)
\* one write_then_readinto of read_u16: the address byte sent, the bytes
\* written, the bytes read, and whether the transport succeeded
EvXfer(a, w, r, o) == Ev("xfer", a, w, r, o)
\* the write_then_readinto of a conversion_ready_flag read
EvFlagXfer(a, w, r, o) == Ev("flag_xfer", a, w, r, o)
\* the value of conversion_ready_flag a poll observed
EvFlag(v) == Ev("flag", FLAGS, 0, 0, v)

(************************* the driver's pure parts *************************)
\* faulty variant: the entry of slot 1 names the registers of slot 0
channels_CopyPaste ==
  [i \in {0, 1, 2} |->
     CASE i = 0 -> <<FIFO_0_H, FIFO_0_L>>
       [] i = 1 -> <<FIFO_0_H, FIFO_0_L>>
       [] i = 2 -> <<FIFO_2_H, FIFO_2_L>>]

\* channels = {0: (FIFO_0_H, FIFO_0_L), 1: ..., 2: ...}
channels ==
  [i \in {0, 1, 2} |->
     CASE i = 0 -> <<FIFO_0_H, FIFO_0_L>>
       [] i = 1 -> <<FIFO_1_H, FIFO_1_L>>
       [] i = 2 -> <<FIFO_2_H, FIFO_2_L>>]

\* faulty variant: an unknown slot falls back to the last channel
ChannelLookup_Fallback(id) ==
  IF id \in DOMAIN channels
  THEN [found |-> TRUE, h |-> channels[id][1], l |-> channels[id][2]]
  ELSE [found |-> TRUE, h |-> channels[2][1], l |-> channels[2][2]]

\* register_h, register_l = channels[id]; a missing key raises KeyError
ChannelLookup(id) ==
  IF id \in DOMAIN channels
  THEN [found |-> TRUE, h |-> channels[id][1], l |-> channels[id][2]]
  ELSE [found |-> FALSE, h |-> 0 - 1, l |-> 0 - 1]

\* faulty variant: the comparison is reversed, so the loop body never runs
WaitCondition_Reversed(t_now, start_time) == t_now > start_time

\* while time.monotonic() < start_time
WaitCondition(t_now, start_time) == t_now < start_time

\* faulty variant: the deadline is never reached (the loop ends only on the flag)
Deadline_Never(t_now) == ClockCap + 1

\* start_time = time.monotonic() + 1.1
Deadline(t_now) == t_now + TimeoutTicks

\* faulty variant: the high nibble of result_msb is not padded
ExpMsb_NoPad(b0, b1) ==
  LET exponent == BitAnd(Shr(b0, 4), Shl(1, 4) - 1)
      msb0 == BitAnd(b0, Shl(1, 4) - 1)
      msb2 == msb0 + b1
  IN  [exponent |-> exponent, result_msb |-> msb2]

\* get_exp_msb on the buffer bytes
ExpMsb(b0, b1) ==
  LET exponent == BitAnd(Shr(b0, 4), Shl(1, 4) - 1)
      msb0 == BitAnd(b0, Shl(1, 4) - 1)
      msb1 == Shl(msb0, 8)
      msb2 == msb1 + b1
  IN  [exponent |-> exponent, result_msb |-> msb2]

\* get_lsb_counter_crc on the buffer bytes
LsbCounterCrc(b0, b1) ==
  [result_lsb |-> b0,
   counter |-> BitAnd(Shr(b1, 4), Shl(1, 4) - 1),
   crc |-> BitAnd(b1, Shl(1, 4) - 1)]

\* faulty variant: the mantissa is padded by a nibble instead of a byte
Mantissa_NibblePad(result_msb, result_lsb) == Shl(result_msb, 4) + result_lsb

\* mantissa = (result_msb << 8) + result_lsb
Mantissa(result_msb, result_lsb) == Shl(result_msb, 8) + result_lsb
\* adc_codes = mantissa << exponent
AdcCodes(mantissa, exponent) == BigShl(Nat2Big(mantissa), exponent)
\* lux = adc_codes * .0004375
Lux(adc_codes) == BigMul(adc_codes, LuxScaleE7)

\* return lux if just_lux else lux, counter, crc
\* (the conditional expression binds tighter than the commas)
ReturnValue(just_lux, lux, counter, crc) ==
  PyTuple(<<IF just_lux THEN lux ELSE lux, counter, crc>>)

\* write_then_readinto(self.buf, self.buf, out_end=1, in_start=0):
\* out_start defaults to 0 and in_end to len(in_buffer)
ReadU16OutLen == 1 - 0
ReadU16InLen == BufLen - 0
\* ROBit(FLAGS, 2, register_width=2): its own 3-byte buffer, out_end=1,
\* in_start=1
FlagOutLen == 1 - 0
FlagInLen == (1 + 2) - 1

\* faulty variant: the bus is unlocked only on the normal path
LockAfterExit_Leak(t, exc) == IF exc THEN t ELSE "free"

\* I2CDevice.__exit__ unlocks the bus whether or not an exception is pending
LockAfterExit(t, exc) == "free"

(***************************** construction ********************************)
\* check_id on the bytes read from DEVICE_ID
CheckId(b0, b1) ==
  LET DIDL == BitAnd(Shr(b0, 4), Shl(1, 2) - 1)
      DIDH == Shl(BitAnd(b0, Shl(1, 4) - 1), 8) + b1
  IN  DIDL = 0 /\ DIDH = 289

\* self.buf after __init__: the DEVICE_ID bytes check_id accepted
Buf3(b0, b1, b2) == [i \in 0..(BufLen - 1) |-> IF i = 0 THEN b0 ELSE IF i = 1 THEN b1 ELSE b2]

ConstructedBufs ==
  {Buf3(p[1], p[2], b2) :
     p \in {q \in AllBytes \X AllBytes : CheckId(q[1], q[2])}, b2 \in TrailBytes}

\* the driver object after __init__, and the callers about to use it
InitWith(callers) ==
  /\ pc = [t \in callers |-> "idle"]
  /\ loc = [t \in callers |-> NoLocals]
  /\ buf \in ConstructedBufs
  /\ i2c_lock = "free"
  /\ now = 0
  /\ trace = [t \in callers |-> <<>>]
  /\ got = [t \in callers |-> NoReads]

Init == InitWith({Main})

InitConc == InitWith(Threads)

(***************************** the accessors *******************************)
\* lux / result: return self.result_of_addr(just_lux)
CallPrimary(t, name, just_lux) ==
  /\ pc[t] = "idle"
  /\ loc' = [loc EXCEPT ![t].op = name, ![t].just_lux = just_lux,
                        ![t].register_h = RESULT_H, ![t].register_l = RESULT_L]
  /\ pc' = [pc EXCEPT ![t] = "set_deadline"]
  /\ UNCHANGED <<buf, i2c_lock, now, trace, got>>

Call_lux(t) == CallPrimary(t, "lux", TRUE)

Call_result(t) == CallPrimary(t, "result", FALSE)

\* read_lux_FIFO / read_result_FIFO: the channels lookup, then
\* read_from_fifo(register_h, register_l, just_lux) up to its first read_u16
CallFifo(t, name, id, just_lux) ==
  /\ pc[t] = "idle"
  /\ LET c == ChannelLookup(id)
     IN  IF c.found
         THEN /\ loc' = [loc EXCEPT ![t].op = name, ![t].id = id,
                                    ![t].just_lux = just_lux,
                                    ![t].register_h = c.h, ![t].register_l = c.l,
                                    ![t].stage = "high", ![t].register = c.h]
              /\ pc' = [pc EXCEPT ![t] = "read_u16"]
         ELSE /\ loc' = [loc EXCEPT ![t].op = name, ![t].id = id,
                                    ![t].err = "KeyError"]
              /\ pc' = [pc EXCEPT ![t] = "raised"]
  /\ UNCHANGED <<buf, i2c_lock, now, trace, got>>

Call_read_lux_FIFO(t) == \E id \in SlotArgs : CallFifo(t, "read_lux_FIFO", id, TRUE)

Call_read_result_FIFO(t) == \E id \in SlotArgs : CallFifo(t, "read_result_FIFO", id, FALSE)

(************************* result_of_addr: the wait ************************)
\* start_time = time.monotonic() + 1.1
SetDeadline(t) ==
  /\ pc[t] = "set_deadline"
  /\ loc' = [loc EXCEPT ![t].start_time = Deadline(now)]
  /\ pc' = [pc EXCEPT ![t] = "while"]
  /\ UNCHANGED <<buf, i2c_lock, now, trace, got>>

\* leaving the loop: exponent, result_msb = self.get_exp_msb(RESULT_H)
BeginHigh(l) == [l EXCEPT !.stage = "high", !.register = l.register_h]

\* while time.monotonic() < start_time:
WhileTest(t) ==
  /\ pc[t] = "while"
  /\ IF WaitCondition(now, loc[t].start_time)
     THEN /\ pc' = [pc EXCEPT ![t] = "flag_enter"]
          /\ UNCHANGED loc
     ELSE /\ pc' = [pc EXCEPT ![t] = "read_u16"]
          /\ loc' = [loc EXCEPT ![t] = BeginHigh(loc[t])]
  /\ UNCHANGED <<buf, i2c_lock, now, trace, got>>

\* if self.conversion_ready_flag: the ROBit read acquires the bus ...
FlagEnter(t) ==
  /\ pc[t] = "flag_enter"
  /\ i2c_lock = "free"
  /\ i2c_lock' = t
  /\ trace' = [trace EXCEPT ![t] = Append(@, EvAcquire)]
  /\ pc' = [pc EXCEPT ![t] = "flag_xfer"]
  /\ UNCHANGED <<loc, buf, now, got>>

\* ... writes the FLAGS address and reads the register into its own buffer;
\* the device decides the flag, the transport may fail ...
FlagXfer(t) ==
  /\ pc[t] = "flag_xfer"
  /\ \E d \in BusTicks : now' = Min(now + d, ClockCap)
  /\ \/ \E v \in BOOLEAN :
          /\ loc' = [loc EXCEPT ![t].flag = v, ![t].exc = FALSE]
          /\ trace' = [trace EXCEPT ![t] =
                         @ \o <<EvFlagXfer(FLAGS, FlagOutLen, FlagInLen, TRUE), EvFlag(v)>>]
     \/ /\ loc' = [loc EXCEPT ![t].exc = TRUE]
        /\ trace' = [trace EXCEPT ![t] = Append(@, EvFlagXfer(FLAGS, FlagOutLen, 0, FALSE))]
  /\ pc' = [pc EXCEPT ![t] = "flag_exit"]
  /\ UNCHANGED <<buf, i2c_lock, got>>

\* ... and releases it; then break, or time.sleep(0.001)
FlagExit(t) ==
  /\ pc[t] = "flag_exit"
  /\ i2c_lock' = LockAfterExit(t, loc[t].exc)
  /\ trace' = [trace EXCEPT ![t] = Append(@, EvRelease)]
  /\ IF loc[t].exc
     THEN /\ pc' = [pc EXCEPT ![t] = "raised"]
          /\ loc' = [loc EXCEPT ![t].err = "OSError"]
     ELSE IF loc[t].flag
     THEN /\ pc' = [pc EXCEPT ![t] = "read_u16"]
          /\ loc' = [loc EXCEPT ![t] = BeginHigh(loc[t])]
     ELSE /\ pc' = [pc EXCEPT ![t] = "sleep"]
          /\ UNCHANGED loc
  /\ UNCHANGED <<buf, now, got>>

\* time.sleep(0.001)
Sleep(t) ==
  /\ pc[t] = "sleep"
  /\ \E d \in SleepTicks : now' = Min(now + d, ClockCap)
  /\ trace' = [trace EXCEPT ![t] = Append(@, EvSleep)]
  /\ pc' = [pc EXCEPT ![t] = "while"]
  /\ UNCHANGED <<loc, buf, i2c_lock, got>>

(******************************** read_u16 *********************************)
\* self.buf[0] = addr
ReadU16_SetAddr(t) ==
  /\ pc[t] = "read_u16"
  /\ buf' = [buf EXCEPT ![0] = loc[t].register]
  /\ got' = [got EXCEPT ![t].asked = Append(@, loc[t].register)]
  /\ pc' = [pc EXCEPT ![t] = "enter"]
  /\ UNCHANGED <<loc, i2c_lock, now, trace>>

\* with self.i2c_device as i2c: __enter__ spins until try_lock succeeds
ReadU16_Enter(t) ==
  /\ pc[t] = "enter"
  /\ i2c_lock = "free"
  /\ i2c_lock' = t
  /\ trace' = [trace EXCEPT ![t] = Append(@, EvAcquire)]
  /\ pc' = [pc EXCEPT ![t] = "xfer"]
  /\ UNCHANGED <<loc, buf, now, got>>

\* the bytes that land in self.buf[in_start:in_end]
BufAfterRead(b, data) ==
  [i \in 0..(BufLen - 1) |-> IF i < ReadU16InLen THEN data[i] ELSE b[i]]

\* i2c.write_then_readinto(self.buf, self.buf, out_end=1, in_start=0):
\* sends self.buf[0:1], then reads into self.buf; or the transport fails
ReadU16_Xfer(t) ==
  /\ pc[t] = "xfer"
  /\ \/ \E p \in DevicePairs(buf[0]), b2 \in TrailBytes :
          /\ buf' = BufAfterRead(buf, Buf3(p[1], p[2], b2))
          /\ got' = [got EXCEPT ![t][loc[t].stage] = p]
          /\ trace' = [trace EXCEPT ![t] =
                         Append(@, EvXfer(buf[0], ReadU16OutLen, ReadU16InLen, TRUE))]
          /\ loc' = [loc EXCEPT ![t].exc = FALSE]
     \/ /\ trace' = [trace EXCEPT ![t] =
                       Append(@, EvXfer(buf[0], ReadU16OutLen, 0, FALSE))]
        /\ loc' = [loc EXCEPT ![t].exc = TRUE]
        /\ UNCHANGED <<buf, got>>
  /\ pc' = [pc EXCEPT ![t] = "xfer_done"]
  /\ UNCHANGED <<i2c_lock, now>>

\* where read_u16 returns to
AfterRead(stage) == IF stage = "high" THEN "get_exp_msb" ELSE "get_lsb_counter_crc"

\* __exit__: the bus is unlocked; a pending exception propagates
ReadU16_Exit(t) ==
  /\ pc[t] = "xfer_done"
  /\ i2c_lock' = LockAfterExit(t, loc[t].exc)
  /\ trace' = [trace EXCEPT ![t] = Append(@, EvRelease)]
  /\ IF loc[t].exc
     THEN /\ pc' = [pc EXCEPT ![t] = "raised"]
          /\ loc' = [loc EXCEPT ![t].err = "OSError"]
     ELSE /\ pc' = [pc EXCEPT ![t] = AfterRead(loc[t].stage)]
          /\ UNCHANGED loc
  /\ UNCHANGED <<buf, now, got>>

(******************************* the decoders ******************************)
\* get_exp_msb after its read_u16; the caller goes on to
\* get_lsb_counter_crc(register_l)
GetExpMsb(t) ==
  /\ pc[t] = "get_exp_msb"
  /\ LET d == ExpMsb(buf[0], buf[1])
     IN  loc' = [loc EXCEPT ![t].exponent = d.exponent,
                            ![t].result_msb = d.result_msb,
                            ![t].stage = "low",
                            ![t].register = loc[t].register_l]
  /\ pc' = [pc EXCEPT ![t] = "read_u16"]
  /\ UNCHANGED <<buf, i2c_lock, now, trace, got>>

\* get_lsb_counter_crc after its read_u16
GetLsbCounterCrc(t) ==
  /\ pc[t] = "get_lsb_counter_crc"
  /\ LET d == LsbCounterCrc(buf[0], buf[1])
     IN  loc' = [loc EXCEPT ![t].result_lsb = d.result_lsb,
                            ![t].counter = d.counter,
                            ![t].crc = d.crc]
  /\ pc' = [pc EXCEPT ![t] = "compute"]
  /\ UNCHANGED <<buf, i2c_lock, now, trace, got>>

\* mantissa, adc_codes, lux and the return statement
Compute(t) ==
  /\ pc[t] = "compute"
  /\ \E mantissa \in {Mantissa(loc[t].result_msb, loc[t].result_lsb)} :
     \E adc_codes \in {AdcCodes(mantissa, loc[t].exponent)} :
     \E lux \in {Lux(adc_codes)} :
       loc' = [loc EXCEPT ![t].mantissa = mantissa,
                          ![t].adc_codes = adc_codes,
                          ![t].lux = lux,
                          ![t].ret = ReturnValue(loc[t].just_lux, lux,
                                                 loc[t].counter, loc[t].crc)]
  /\ pc' = [pc EXCEPT ![t] = "returned"]
  /\ UNCHANGED <<buf, i2c_lock, now, trace, got>>

(***************************** specifications ******************************)
Step(t) ==
  \/ Call_lux(t)
  \/ Call_result(t)
  \/ Call_read_lux_FIFO(t)
  \/ Call_read_result_FIFO(t)
  \/ SetDeadline(t)
  \/ WhileTest(t)
  \/ FlagEnter(t)
  \/ FlagXfer(t)
  \/ FlagExit(t)
  \/ Sleep(t)
  \/ ReadU16_SetAddr(t)
  \/ ReadU16_Enter(t)
  \/ ReadU16_Xfer(t)
  \/ ReadU16_Exit(t)
  \/ GetExpMsb(t)
  \/ GetLsbCounterCrc(t)
  \/ Compute(t)

\* one caller: the single-threaded use the driver is written for
Next == Step(Main)

Spec == Init /\ [][Next]_vars

\* the same, with every enabled step eventually taken
FairSpec == Init /\ [][Next]_vars /\ WF_vars(Next)

\* the steps of a FIFO request
FifoStep(t) ==
  \/ Call_read_lux_FIFO(t)
  \/ Call_read_result_FIFO(t)
  \/ ReadU16_SetAddr(t)
  \/ ReadU16_Enter(t)
  \/ ReadU16_Xfer(t)
  \/ ReadU16_Exit(t)
  \/ GetExpMsb(t)
  \/ GetLsbCounterCrc(t)
  \/ Compute(t)

\* two callers on the same driver object, serialized by the bus lock alone:
\* Main makes any request while the other caller reads a FIFO slot
NextConc == Step(Main) \/ \E t \in Threads \ {Main} : FifoStep(t)

SpecConc == InitConc /\ [][NextConc]_vars

(*********************** the decoders on every byte ************************)
\* a FIFO-0 request at the moment its read of the high register has returned
\* the bytes b0, b1
AfterHighRead(b0, b1) ==
  /\ pc = [t \in {Main} |-> "get_exp_msb"]
  /\ loc = [t \in {Main} |->
              [NoLocals EXCEPT !.op = "read_result_FIFO", !.id = 0,
                               !.register_h = FIFO_0_H, !.register_l = FIFO_0_L,
                               !.stage = "high", !.register = FIFO_0_H]]
  /\ buf = Buf3(b0, b1, 0)
  /\ trace = [t \in {Main} |->
                <<EvAcquire, EvXfer(FIFO_0_H, ReadU16OutLen, ReadU16InLen, TRUE), EvRelease>>]
  /\ got = [t \in {Main} |-> [high |-> <<b0, b1>>, low |-> NoPair, asked |-> <<FIFO_0_H>>]]

\* the same request at the moment its read of the low register has returned
\* b0, b1, the high register having read as zero
AfterLowRead(b0, b1) ==
  /\ pc = [t \in {Main} |-> "get_lsb_counter_crc"]
  /\ loc = [t \in {Main} |->
              [NoLocals EXCEPT !.op = "read_result_FIFO", !.id = 0,
                               !.register_h = FIFO_0_H, !.register_l = FIFO_0_L,
                               !.stage = "low", !.register = FIFO_0_L,
                               !.exponent = 0, !.result_msb = 0]]
  /\ buf = Buf3(b0, b1, 0)
  /\ trace = [t \in {Main} |->
                <<EvAcquire, EvXfer(FIFO_0_H, ReadU16OutLen, ReadU16InLen, TRUE), EvRelease,
                  EvAcquire, EvXfer(FIFO_0_L, ReadU16OutLen, ReadU16InLen, TRUE), EvRelease>>]
  /\ got = [t \in {Main} |-> [high |-> <<0, 0>>, low |-> <<b0, b1>>,
                              asked |-> <<FIFO_0_H, FIFO_0_L>>]]

InitDecode ==
  /\ i2c_lock = "free"
  /\ now = 0
  /\ \E b0 \in AllBytes, b1 \in AllBytes :
       AfterHighRead(b0, b1) \/ AfterLowRead(b0, b1)

NextDecode == GetExpMsb(Main) \/ GetLsbCounterCrc(Main)

\* get_exp_msb and get_lsb_counter_crc applied to every byte pair
DecodeSpec == InitDecode /\ [][NextDecode]_vars

(************************* vocabulary of the claims *************************)
Returned(t) == pc[t] = "returned"
Raised(t) == pc[t] = "raised"
IsPrimary(t) == loc[t].op \in {"lux", "result"}
IsFifo(t) == loc[t].op \in {"read_lux_FIFO", "read_result_FIFO"}
LuxOnlyAccessor(t) == loc[t].op \in {"lux", "read_lux_FIFO"}
ValidSlot(t) == loc[t].id \in {0, 1, 2}

\* the events of one kind, in order
Events(t, kind) == SelectSeq(trace[t], LAMBDA e : e.ev = kind)
\* the addresses the register reads of t put on the wire, in order
SentAddrs(t) == [i \in 1..Len(Events(t, "xfer")) |-> Events(t, "xfer")[i].addr]
\* positions of the trace holding an event of one kind
Positions(t, kind) == {i \in 1..Len(trace[t]) : trace[t][i].ev = kind}
IsPrefix(a, b) == Len(a) <= Len(b) /\ a = SubSeq(b, 1, Len(a))

RECURSIVE BigToNat(_)
BigToNat(b) == IF b = <<>> THEN 0 ELSE Head(b) + 256 * BigToNat(Tail(b))

\* the fields the device datasheet assigns to a high and a low register
FieldExponent(h) == Shr(h[1], 4)
FieldResultMsb(h) == BitOr(Shl(BitAnd(h[1], 15), 8), h[2])
FieldResultLsb(l) == l[1]
FieldCounter(l) == Shr(l[2], 4)
FieldCrc(l) == BitAnd(l[2], 15)
FieldMantissa(h, l) == BitOr(Shl(FieldResultMsb(h), 8), FieldResultLsb(l))

(********************************* C1 **************************************)
\* C1: the shape of the returned measurement is fixed by the accessor: lux
\* and read_lux_FIFO return the lux value alone, result and read_result_FIFO
\* return lux together with counter and crc.
C1_ShapeFixedByAccessor ==
  \A t \in Callers :
    Returned(t) =>
      IF LuxOnlyAccessor(t)
      THEN loc[t].ret.type = "float" /\ loc[t].ret = PyFloat(loc[t].lux)
      ELSE loc[t].ret.type = "tuple"
           /\ loc[t].ret = PyTuple(<<loc[t].lux, loc[t].counter, loc[t].crc>>)

(********************************* C2 **************************************)
\* C2: the values a request computes are the datasheet fields of the bytes
\* its own two register reads returned: exponent = h0 >> 4, result_msb =
\* ((h0 & 0xF) << 8) | h1, result_lsb = l0, counter = l1 >> 4, crc = l1 & 0xF,
\* mantissa = (result_msb << 8) | result_lsb, adc_codes = mantissa << exponent
\* and lux = adc_codes * 0.0004375, for every exponent 0..15; high (0,1) /
\* low (0,0) gives adc_codes 256 and high (0x10,0) / low (0xFF,0) gives 510.
C2_DecodedValues ==
  \A t \in Callers :
    Returned(t) =>
      LET h == got[t].high
          l == got[t].low
          m == FieldMantissa(h, l)
          e == FieldExponent(h)
      IN  /\ loc[t].exponent = e
          /\ loc[t].result_msb = FieldResultMsb(h)
          /\ loc[t].result_lsb = FieldResultLsb(l)
          /\ loc[t].counter = FieldCounter(l)
          /\ loc[t].crc = FieldCrc(l)
          /\ loc[t].mantissa = m
          /\ loc[t].adc_codes = BigShl(Nat2Big(m), e)
          /\ loc[t].lux = BigMul(loc[t].adc_codes, 4375)
          /\ (m < Pow2(16) => BigToNat(loc[t].adc_codes) = m * Pow2(e))
          /\ ((m < Pow2(16) /\ m * Pow2(e) < Pow2(18)) =>
                BigToNat(loc[t].lux) = m * Pow2(e) * 4375)
          /\ (h = <<0, 1>> /\ l = <<0, 0>> => loc[t].adc_codes = Nat2Big(256))
          /\ (h = <<16, 0>> /\ l = <<255, 0>> => loc[t].adc_codes = Nat2Big(510))

\* a request returned after reading a register with exponent 12 and every
\* mantissa bit above bit 12 taken from both bytes
C2_Witness ==
  \E t \in Callers :
    /\ Returned(t)
    /\ got[t].high = <<197, 255>>
    /\ got[t].low = <<1, 197>>
    /\ loc[t].exponent = 12

(********************************* C3 **************************************)
\* C3: read_lux_FIFO / read_result_FIFO with a slot outside {0, 1, 2} ends
\* with the lookup error, before any register address is stored or sent and
\* without the bus ever being acquired.
C3_BadSlotNoBusAccess ==
  \A t \in Callers :
    (IsFifo(t) /\ ~ValidSlot(t)) =>
      /\ Raised(t)
      /\ loc[t].err = "KeyError"
      /\ trace[t] = <<>>
      /\ got[t].asked = <<>>
      /\ i2c_lock # t

C3_Witness ==
  \E t \in Callers :
    /\ loc[t].op = "read_result_FIFO"
    /\ loc[t].id = 3
    /\ Raised(t)

(********************************* C4 **************************************)
\* the request has left the wait and is reading, or has read, a register
InReadPhase(t) == pc[t] = "read_u16" \/ got[t].asked # <<>>
\* the values of conversion_ready_flag the polls of t observed, in order
Polls(t) == [i \in 1..Len(Events(t, "flag")) |-> Events(t, "flag")[i].ok]
WaitEvents == {"flag_xfer", "flag", "sleep"}

NeverSet(t) == \A i \in 1..Len(Polls(t)) : ~Polls(t)[i]
TransportFailed(t) ==
  \E i \in 1..Len(trace[t]) :
    trace[t][i].ev \in {"xfer", "flag_xfer"} /\ ~trace[t][i].ok

\* C5: a primary request always terminates, after at most one poll per tick
\* of the wait window; it raises only when the bus transport failed, never
\* because of the timeout; and when no poll saw the flag set it returns,
\* after the timeout has elapsed, the value decoded from the bytes read from
\* RESULT_H and RESULT_L.
C5_TimeoutStillReturns ==
  /\ [](Len(Polls(Main)) <= TimeoutTicks)
  /\ [](IsPrimary(Main) /\ Raised(Main) => TransportFailed(Main))
  /\ [](IsPrimary(Main) /\ Returned(Main) /\ NeverSet(Main) =>
          /\ now >= loc[Main].start_time
          /\ SentAddrs(Main) = <<RESULT_H, RESULT_L>>
          /\ loc[Main].ret.items[1] =
               BigMul(BigShl(Nat2Big(FieldMantissa(got[Main].high, got[Main].low)),
                             FieldExponent(got[Main].high)), 4375))
  /\ (pc[Main] = "set_deadline") ~> (Returned(Main) \/ Raised(Main))

\* lux returned although every poll of the wait window saw the flag clear
C5_Witness ==
  /\ loc[Main].op = "lux"
  /\ Returned(Main)
  /\ Len(Polls(Main)) >= 2
  /\ NeverSet(Main)
  /\ now >= loc[Main].start_time

(********************************* C6 **************************************)
\* C6: a FIFO request for slot s in {0,1,2} never polls the FLAGS register
\* and never sleeps; its bus accesses are two acquisitions, the first
\* reading address 0x02 + 2*s and the second address 0x03 + 2*s.
C6_FifoReadsNoWait ==
  \A t \in Callers :
    (IsFifo(t) /\ ValidSlot(t)) =>
      LET want == <<2 + 2 * loc[t].id, 3 + 2 * loc[t].id>>
      IN  /\ \A i \in 1..Len(trace[t]) :
                /\ trace[t][i].ev \notin WaitEvents
                /\ trace[t][i].addr # FLAGS
          /\ now = 0
          /\ IsPrefix(SentAddrs(t), want)
          /\ Len(Events(t, "acquire")) <= 2
          /\ Returned(t) =>
               /\ SentAddrs(t) = want
               /\ Len(Events(t, "acquire")) = 2
               /\ Len(trace[t]) = 6

C6_Witness ==
  \E t \in Callers :
    /\ loc[t].op = "read_lux_FIFO"
    /\ loc[t].id = 2
    /\ Returned(t)
    /\ SentAddrs(t) = <<FIFO_2_H, FIFO_2_L>>

(********************************* C7 **************************************)
HoldsBusAt == {"xfer", "xfer_done", "flag_xfer", "flag_exit"}

\* C7: a caller holds the bus only inside a transfer; a failed transfer is
\* the last transfer of its request (no retry, no further register read),
\* the bus is released after it and the request ends raising the transport
\* error.
C7_FailureReleasesAndPropagates ==
  \A t \in Callers :
    /\ pc[t] \notin HoldsBusAt => i2c_lock # t
    /\ \A i \in 1..Len(trace[t]) :
         (trace[t][i].ev \in {"xfer", "flag_xfer"} /\ ~trace[t][i].ok) =>
           \/ i = Len(trace[t]) /\ pc[t] \in {"xfer_done", "flag_exit"}
           \/ /\ i = Len(trace[t]) - 1
              /\ trace[t][Len(trace[t])] = EvRelease
              /\ Raised(t)
              /\ loc[t].err = "OSError"

\* the read of RESULT_H failed: the request raised, RESULT_L was never asked
C7_Witness ==
  \E t \in Callers :
    /\ loc[t].op = "result"
    /\ Raised(t)
    /\ got[t].asked = <<RESULT_H>>
    /\ TransportFailed(t)
    /\ i2c_lock = "free"

(********************************* C8 **************************************)
\* C8: the bit-field decomposition is lossless: from (exponent, result_msb)
\* the high register's bytes are (exponent << 4) | (result_msb >> 8) and
\* result_msb & 0xFF; from (result_lsb, counter, crc) the low register's
\* bytes are result_lsb and (counter << 4) | crc.
C8_DecompositionLossless ==
  \A t \in Callers :
    /\ loc[t].exponent # 0 - 1 =>
         /\ BitOr(Shl(loc[t].exponent, 4), Shr(loc[t].result_msb, 8)) = got[t].high[1]
         /\ BitAnd(loc[t].result_msb, 255) = got[t].high[2]
    /\ loc[t].result_lsb # 0 - 1 =>
         /\ loc[t].result_lsb = got[t].low[1]
         /\ BitOr(Shl(loc[t].counter, 4), loc[t].crc) = got[t].low[2]

\* the high register (0xAB, 0xCD) decoded
C8_Witness ==
  \E t \in Callers :
    /\ got[t].high = <<171, 205>>
    /\ loc[t].exponent = 10
    /\ loc[t].result_msb = 3021

(********************************* C9 **************************************)
\* C9: every register read is one bus acquisition in which exactly one byte
\* (the register address) is written and exactly two bytes are read.
C9_OneByteOutTwoBytesIn ==
  \A t \in Callers :
    \A i \in Positions(t, "xfer") :
      /\ i > 1 /\ trace[t][i - 1] = EvAcquire
      /\ i < Len(trace[t]) => trace[t][i + 1] = EvRelease
      /\ trace[t][i].wr = 1
      /\ trace[t][i].ok => trace[t][i].rd = 2

(********************************* C10 *************************************)
\* C10: with two callers serialized by the bus acquisition alone, every
\* register read sends the address its own request asked for, and a returned
\* request's lux, counter and crc are decoded from the bytes its own two
\* reads returned.
C10_NoSharedState ==
  \A t \in Callers :
    /\ IsPrefix(SentAddrs(t), got[t].asked)
    /\ Returned(t) =>
         /\ loc[t].counter = FieldCounter(got[t].low)
         /\ loc[t].crc = FieldCrc(got[t].low)
         /\ loc[t].lux =
              BigMul(BigShl(Nat2Big(FieldMantissa(got[t].high, got[t].low)),
                            FieldExponent(got[t].high)), 4375)

=============================================================================
